---- MODULE Spec2Model ----
(***************************************************************************)
(* State-machine model of the offer lifecycle of code-jay/makeoffer:       *)
(* the Offer/OfferItem tables, the remote product catalog, and the request *)
(* handlers create, edit, delete, activate (applyOfferPrices), revert      *)
(* (revertOfferPrices) and the run-job sweep.  Every await of the          *)
(* multi-step handlers is one atomic step, so requests can interleave.     *)
(***************************************************************************)
EXTENDS Integers, Sequences, FiniteSets, TLC

\* ---------------------------------------------------------------- bounds
MaxOffers == 2
MaxItems == 2
MaxTime == 2

\* A nullable column holding no value (prices and dates are >= 1).
NULL == 0

Procs == {"p1", "p2"}
\* SKUs the remote catalog resolves, and all SKUs a CSV may name.
Catalog == {"A"}
Skus == Catalog \cup {"Z"}
CsvPrices == {"2"}
TagInputs == {<<"">>, <<"sale">>}
OfferIds == 1..MaxOffers
Dates == 1..MaxTime

VARIABLES
    offers,   \* Offer table: id -> header record
    items,    \* OfferItem table: offer id -> its items, in insertion order
    nextId,   \* next auto-increment Offer id
    remote,   \* remote catalog: sku -> [price, tags]
    now,      \* the wall clock
    procs,    \* in-flight requests: slot -> activation record
    resp,     \* "rejected"/"notfound" when the request just answered was refused
    rt,       \* history: the remote prices when the latest activate began
    hist      \* history: per offer, what activate calls have done to it

vars == <<offers, items, nextId, remote, now, procs, resp, rt, hist>>

\* ------------------------------------------------------------- helpers
Range(s) == {s[i] : i \in DOMAIN s}

SeqsUpTo(S, n) == UNION {[1..k -> S] : k \in 0..n}

Prices == [s \in Catalog |-> remote[s].price]

Rank(st) == CASE st = "PENDING" -> 0 [] st = "ACTIVE" -> 1 [] OTHER -> 2

\* offer.tags.split(',').map(t => t.trim()).filter(Boolean)
ParseTags(t) == SelectSeq(t, LAMBDA s : s # "")

\* ------------------------------------------------------------ CSV parser
\* An uploaded CSV text: its header line as the column names it spells and
\* its data lines, each the cells of the line in column order; <<>> is an
\* empty line.  NoFile is an upload without content.
CsvRows == [sku : Skus, price : CsvPrices]
NoFile == [header |-> <<>>, lines |-> <<>>]

\* header.map(column => column.toLowerCase().trim())
Normalise(name) ==
    CASE name \in {"SKU", " Sku "} -> "sku"
      [] name \in {"Actual Price", " ACTUAL PRICE "} -> "actual price"
      [] name \in {"Base Price", " BASE PRICE "} -> "base price"
      [] name \in {"Price", "PRICE "} -> "price"
      [] OTHER -> name

Trim_None(cell) == cell

\* trim: true
Trim(cell) ==
    CASE cell = " A " -> "A"
      [] cell = " 2 " -> "2"
      [] OTHER -> cell

\* parseFloat of a value that is not a number
NaN == -1

\* parseFloat of a price string
ParseFloat(str) ==
    CASE str = "2" -> 2
      [] str = "4" -> 4
      [] OTHER -> NaN

\* The records csv-parse returns: one per non-empty line, keyed by the
\* normalised column names.
Header(csv) == [j \in DOMAIN csv.header |-> Normalise(csv.header[j])]

Cols(csv) == Range(Header(csv))

DataLines(csv) == SelectSeq(csv.lines, LAMBDA l : l # <<>>)

\* record[col]: the trimmed cell, undefined when the header has no such column
Cell(csv, line, col) ==
    IF col \in Cols(csv)
    THEN Trim(line[CHOOSE j \in DOMAIN csv.header : Header(csv)[j] = col])
    ELSE "undefined"

ExpectedPriceHeader(fmt) == IF fmt = "BASE" THEN "base price" ELSE "actual price"

ParseFails_Legacy(csv, fmt) ==
    /\ Len(DataLines(csv)) > 0
    /\ \/ "sku" \notin Cols(csv)
       \/ "price" \notin Cols(csv)

\* parseCSV throws when there are records and a required column is absent.
ParseFails(csv, fmt) ==
    /\ Len(DataLines(csv)) > 0
    /\ \/ "sku" \notin Cols(csv)
       \/ ExpectedPriceHeader(fmt) \notin Cols(csv)

\* records.map(record => ({ sku: record.sku, price: record[expectedPriceHeader] }))
ParseCSV(csv, fmt) ==
    [k \in DOMAIN DataLines(csv) |->
        [sku |-> Cell(csv, DataLines(csv)[k], "sku"),
         price |-> Cell(csv, DataLines(csv)[k], ExpectedPriceHeader(fmt))]]

BasePrice_NoDiscount(basePrice, markup, discount) == basePrice * markup

\* ------------------------------------------------------ pricing calculator
\* (basePrice * markup) * (1 - discount / 100), discount in percent
BasePrice(basePrice, markup, discount) ==
    ((basePrice * markup) * (100 - discount)) \div 100

NewItem_Priced(sku, price) == [sku |-> sku, offerPrice |-> price, originalPrice |-> price]

\* a new OfferItem row: originalPrice is not given and defaults to null
NewItem(sku, price) == [sku |-> sku, offerPrice |-> price, originalPrice |-> NULL]

\* --------------------------------------------------------------- records
\* A row of the Offer table that does not exist (never created, or deleted).
NoOffer ==
    [status |-> "NONE", priceType |-> "OFFER", pricingFormat |-> "ACTUAL",
     markup |-> NULL, discount |-> NULL, startDate |-> NULL, endDate |-> NULL,
     tags |-> <<"">>]

Exists(o) == offers[o].status # "NONE"

IdleProc ==
    [pc |-> "idle", kind |-> "none", op |-> "none", oid |-> 0,
     ptype |-> "none", otags |-> <<>>, its |-> <<>>, i |-> 0,
     vprice |-> NULL, vtags |-> {}, stale |-> FALSE,
     now |-> 0, queue |-> <<>>,
     seen |-> "none", pre |-> [s \in Catalog |-> NULL], errs |-> FALSE,
     due |-> [act |-> {}, rev |-> {}], acts |-> {}, revs |-> {}]

NoResp == "none"
NoRt == [oid |-> 0, pre |-> [s \in Catalog |-> NULL]]
NoHist == [mutated |-> FALSE, activated |-> FALSE]

AllIdle == \A p \in Procs : procs[p].pc = "idle"

Init ==
    /\ offers = [o \in OfferIds |-> NoOffer]
    /\ items = [o \in OfferIds |-> <<>>]
    /\ nextId = 1
    /\ remote = [s \in Catalog |-> [price |-> 1, tags |-> {}]]
    /\ now = 1
    /\ procs = [p \in Procs |-> IdleProc]
    /\ resp = NoResp
    /\ rt = NoRt
    /\ hist = [o \in OfferIds |-> NoHist]

\* ------------------------------------------------- form submissions (inputs)
\* A CSV with the header of the requested format and the given rows.
Csv(fmt, rows) ==
    [header |-> <<"SKU", IF fmt = "BASE" THEN "Base Price" ELSE "Actual Price">>,
     lines |-> [k \in DOMAIN rows |-> <<rows[k].sku, rows[k].price>>]]

CreateForm(startDate, endDate, tags, file) ==
    [title |-> TRUE, vendor |-> TRUE, startDate |-> startDate, endDate |-> endDate,
     tags |-> tags, file |-> file]

EditForm(priceType, pricingFormat, startDate, endDate, tags, file) ==
    [title |-> TRUE, vendor |-> TRUE, priceType |-> priceType,
     pricingFormat |-> pricingFormat, startDate |-> startDate, endDate |-> endDate,
     tags |-> tags, markup |-> 2, discount |-> 50, file |-> file]

\* Submissions that fail validation, one defect each.
BadCreates ==
    LET v == CreateForm(1, 1, <<"">>, Csv("ACTUAL", <<[sku |-> "A", price |-> "2"]>>))
    IN {[v EXCEPT !.title = FALSE], [v EXCEPT !.vendor = FALSE],
        [v EXCEPT !.startDate = NULL], [v EXCEPT !.endDate = NULL],
        [v EXCEPT !.file = NoFile], [v EXCEPT !.file.header = <<"sku", "price">>],
        [v EXCEPT !.file.header = <<"name", "actual price">>]}

BadEdits ==
    LET v == EditForm("OFFER", "BASE", 1, 1, <<"">>,
                      Csv("BASE", <<[sku |-> "A", price |-> "2"]>>))
    IN {[v EXCEPT !.title = FALSE], [v EXCEPT !.vendor = FALSE],
        [v EXCEPT !.priceType = ""], [v EXCEPT !.pricingFormat = ""],
        [v EXCEPT !.startDate = NULL], [v EXCEPT !.endDate = NULL],
        [v EXCEPT !.markup = NULL], [v EXCEPT !.discount = NULL],
        [v EXCEPT !.file.header = <<"sku", "price">>],
        [v EXCEPT !.file.header = <<"sku", "actual price">>]}

ItemLists == SeqsUpTo(CsvRows, MaxItems)

\* The submissions of the sequential environment: every item list, both
\* price types, with and without tags; one schedule, ACTUAL prices.
SeqCreates ==
    {CreateForm(1, 1, t, Csv("ACTUAL", rows)) : t \in TagInputs, rows \in ItemLists}
    \cup BadCreates

SeqEdits ==
    {EditForm(pt, "ACTUAL", 1, 1, t, f) :
        pt \in {"OFFER", "REGULAR"}, t \in TagInputs,
        f \in {NoFile} \cup {Csv("ACTUAL", rows) : rows \in ItemLists}}
    \cup BadEdits

\* ---------------------------------------------------------------- create
\* app.offers.new.tsx action
CreateOffer(inp) ==
    /\ nextId <= MaxOffers
    /\ UNCHANGED <<remote, now, procs, rt, hist>>
    /\ IF \/ ~inp.title \/ ~inp.vendor
          \/ inp.startDate = NULL \/ inp.endDate = NULL \/ inp.file = NoFile
          \/ ParseFails(inp.file, "ACTUAL")
       THEN /\ resp' = "rejected"
            /\ UNCHANGED <<offers, items, nextId>>
       ELSE /\ offers' = [offers EXCEPT ![nextId] =
                  [status |-> "PENDING", priceType |-> "OFFER",
                   pricingFormat |-> "ACTUAL", markup |-> NULL, discount |-> NULL,
                   startDate |-> inp.startDate, endDate |-> inp.endDate,
                   tags |-> inp.tags]]
            /\ items' = [items EXCEPT ![nextId] =
                  [k \in DOMAIN ParseCSV(inp.file, "ACTUAL") |->
                      NewItem(ParseCSV(inp.file, "ACTUAL")[k].sku,
                              ParseFloat(ParseCSV(inp.file, "ACTUAL")[k].price))]]
            /\ nextId' = nextId + 1
            /\ resp' = NoResp

\* The round trip of offer o is no longer the plain activate-then-revert
\* that rt tracks once o is edited or deleted in between.
Untrack(o) == IF rt.oid = o THEN NoRt ELSE rt

\* A request that holds a snapshot of offer o's item rows finds them gone
\* once they are deleted (its next update of a row by id throws).
Unhook(o) ==
    [p \in Procs |->
        IF procs[p].oid = o /\ procs[p].op = "activate"
           /\ procs[p].pc \in {"a_query", "a_store", "a_price", "a_tags", "a_status"}
        THEN [procs[p] EXCEPT !.stale = TRUE]
        ELSE procs[p]]

\* ------------------------------------------------------------------ edit
EditPrice(inp, price) ==
    IF inp.pricingFormat = "BASE"
    THEN BasePrice(price, inp.markup, inp.discount)
    ELSE price

ReplaceItems_Append(old, new) == old \o new

\* items: { deleteMany: {}, create: [...] }
ReplaceItems(old, new) == new

\* app.offers.$id.edit.tsx action
EditOffer(o, inp) ==
    /\ UNCHANGED <<nextId, remote, now, hist>>
    /\ IF \/ ~inp.title \/ ~inp.vendor \/ inp.priceType = "" \/ inp.pricingFormat = ""
          \/ (inp.priceType = "OFFER" /\ (inp.startDate = NULL \/ inp.endDate = NULL))
          \/ (inp.pricingFormat = "BASE" /\ (inp.markup = NULL \/ inp.discount = NULL))
          \/ (inp.file # NoFile /\ ParseFails(inp.file, inp.pricingFormat))
       THEN /\ resp' = "rejected"
            /\ UNCHANGED <<offers, items, procs, rt>>
       ELSE IF ~Exists(o)
       THEN /\ resp' = "notfound"
            /\ UNCHANGED <<offers, items, procs, rt>>
       ELSE /\ offers' = [offers EXCEPT ![o] =
                  [status |-> offers[o].status,
                   priceType |-> inp.priceType,
                   pricingFormat |-> inp.pricingFormat,
                   markup |-> IF inp.pricingFormat = "BASE" THEN inp.markup ELSE NULL,
                   discount |-> IF inp.pricingFormat = "BASE" THEN inp.discount ELSE NULL,
                   startDate |-> IF inp.priceType = "OFFER" THEN inp.startDate ELSE NULL,
                   endDate |-> IF inp.priceType = "OFFER" THEN inp.endDate ELSE NULL,
                   tags |-> inp.tags]]
            /\ IF inp.file # NoFile
               THEN /\ items' = [items EXCEPT ![o] = ReplaceItems(items[o],
                          [k \in DOMAIN ParseCSV(inp.file, inp.pricingFormat) |->
                              NewItem(ParseCSV(inp.file, inp.pricingFormat)[k].sku,
                                      EditPrice(inp, ParseFloat(
                                          ParseCSV(inp.file, inp.pricingFormat)[k].price)))])]
                    /\ procs' = Unhook(o)
               ELSE UNCHANGED <<items, procs>>
            /\ rt' = Untrack(o)
            /\ resp' = NoResp

\* ---------------------------------------------------------------- delete
\* The OfferItem rows that remain once their offer is deleted: the relation
\* cascades, none remains.
CascadeItems(its) == <<>>

\* app.offers.$id.tsx action, intent delete
DeleteOffer(o) ==
    /\ UNCHANGED <<nextId, remote, now>>
    /\ IF Exists(o)
       THEN /\ offers' = [offers EXCEPT ![o] = NoOffer]
            /\ rt' = Untrack(o)
            /\ hist' = [hist EXCEPT ![o] = NoHist]
            /\ items' = [items EXCEPT ![o] = CascadeItems(items[o])]
            /\ procs' = Unhook(o)
            /\ resp' = NoResp
       ELSE /\ resp' = "notfound"
            /\ UNCHANGED <<offers, items, procs, rt, hist>>

Tick ==
    /\ now < MaxTime
    /\ now' = now + 1
    /\ resp' = NoResp
    /\ UNCHANGED <<offers, items, nextId, remote, procs, rt, hist>>

\* ------------------------------------------------- request bookkeeping
Busy(p) == procs[p].pc \notin {"idle", "done"}

\* Control returns from applyOfferPrices / revertOfferPrices to its caller:
\* the route action (the request is answered) or the sweep's for loop.
Ret(r) ==
    LET q == [r EXCEPT !.its = <<>>, !.i = 0, !.otags = <<>>, !.vprice = NULL,
                       !.vtags = {}, !.stale = FALSE]
    IN
    IF r.kind = "sweep"
    THEN IF Len(r.queue) > 1
         THEN [q EXCEPT !.queue = Tail(r.queue), !.oid = Head(Tail(r.queue)),
                        !.pc = IF r.op = "activate" THEN "a_find" ELSE "r_find"]
         ELSE [q EXCEPT !.queue = <<>>,
                        !.pc = IF r.op = "activate" THEN "s_active" ELSE "done"]
    ELSE [q EXCEPT !.pc = "done"]

\* The request ends with an exception: it is answered with an error, what
\* it had in hand is dropped and nothing is rolled back.
Thrown(r) == IdleProc

RECURSIVE ANext_SkipRecorded(_)
ANext_SkipRecorded(r) ==
    IF r.i > Len(r.its) THEN [r EXCEPT !.pc = "a_status"]
    ELSE IF r.its[r.i].originalPrice = NULL THEN [r EXCEPT !.pc = "a_query"]
    ELSE ANext_SkipRecorded([r EXCEPT !.i = r.i + 1])

\* the for loop of applyOfferPrices: next item or the status write
ANext(r) ==
    IF r.i <= Len(r.its) THEN [r EXCEPT !.pc = "a_query"]
    ELSE [r EXCEPT !.pc = "a_status"]

RNext_NoSkip(r) ==
    IF r.i > Len(r.its) THEN [r EXCEPT !.pc = "r_status"]
    ELSE [r EXCEPT !.pc = "r_query"]

\* the for loop of revertOfferPrices, which skips items without originalPrice
RECURSIVE RNext(_)
RNext(r) ==
    IF r.i > Len(r.its) THEN [r EXCEPT !.pc = "r_status"]
    ELSE IF r.its[r.i].originalPrice # NULL THEN [r EXCEPT !.pc = "r_query"]
    ELSE RNext([r EXCEPT !.i = r.i + 1])

Begin(r, op, o) ==
    [r EXCEPT !.op = op, !.oid = o, !.pc = IF op = "activate" THEN "a_find" ELSE "r_find"]

\* A request is served in the first free slot.
Free(p) ==
    /\ procs[p].pc = "idle"
    /\ \A q \in Procs : procs[q].pc = "idle" => ~(q = "p1" /\ p = "p2")

StartActivate(p, o) ==
    /\ Free(p)
    /\ procs' = [procs EXCEPT ![p] = Begin([IdleProc EXCEPT !.kind = "activate"], "activate", o)]
    /\ resp' = NoResp
    /\ UNCHANGED <<offers, items, nextId, remote, now, rt, hist>>

StartRevert(p, o) ==
    /\ Free(p)
    /\ procs' = [procs EXCEPT ![p] = Begin([IdleProc EXCEPT !.kind = "revert"], "revert", o)]
    /\ resp' = NoResp
    /\ UNCHANGED <<offers, items, nextId, remote, now, rt, hist>>

StartSweep(p) ==
    /\ Free(p)
    /\ procs' = [procs EXCEPT ![p] = [IdleProc EXCEPT !.kind = "sweep", !.pc = "s_pending"]]
    /\ resp' = NoResp
    /\ UNCHANGED <<offers, items, nextId, remote, now, rt, hist>>

\* The request is answered and the slot is free.
Respond(p) ==
    /\ procs[p].pc = "done"
    /\ procs' = [procs EXCEPT ![p] = IdleProc]
    /\ resp' = NoResp
    /\ UNCHANGED <<offers, items, nextId, remote, now, rt, hist>>

\* A request stops at an await: a remote call throws, the request times out
\* or the process dies.  Nothing is rolled back.
Abort(p) ==
    /\ Busy(p)
    /\ procs' = [procs EXCEPT ![p] = Thrown(procs[p])]
    /\ resp' = NoResp
    /\ UNCHANGED <<offers, items, nextId, remote, now, rt, hist>>

\* ------------------------------------------------------ applyOfferPrices
CanActivate_Any(o) == offers[o].status \in {"PENDING", "ACTIVE"}

CanActivate_Exclusive(o) ==
    /\ offers[o].status = "PENDING"
    /\ \A q \in Procs :
          ~(procs[q].op = "activate" /\ procs[q].oid = o
              /\ procs[q].pc \in {"a_query", "a_store", "a_price", "a_tags", "a_status"})

\* the precondition of applyOfferPrices
CanActivate(o) == offers[o].status = "PENDING"

\* findUnique + the status check
AFind(p) ==
    LET r == procs[p]
        o == r.oid
        r1 == [r EXCEPT !.seen = offers[o].status, !.pre = Prices,
                        !.errs = FALSE, !.stale = FALSE,
                        !.acts = IF r.kind = "sweep" THEN r.acts \cup {o} ELSE r.acts]
    IN
    /\ r.pc = "a_find"
    /\ resp' = NoResp
    /\ UNCHANGED <<offers, items, nextId, remote, now, hist>>
    /\ IF CanActivate(o)
       THEN /\ procs' = [procs EXCEPT ![p] =
                  ANext([r1 EXCEPT !.ptype = offers[o].priceType,
                                   !.otags = ParseTags(offers[o].tags),
                                   !.its = items[o], !.i = 1])]
            /\ rt' = [oid |-> o, pre |-> Prices]
       ELSE /\ procs' = [procs EXCEPT ![p] = Ret(r1)]
            /\ UNCHANGED rt

\* the productVariants(first: 1, query: "sku:...") lookup
AQuery(p) ==
    LET r == procs[p]
        sku == r.its[r.i].sku
    IN
    /\ r.pc = "a_query"
    /\ resp' = NoResp
    /\ UNCHANGED <<offers, items, nextId, remote, now, rt, hist>>
    /\ IF sku \in Catalog
       THEN procs' = [procs EXCEPT ![p] =
                [r EXCEPT !.vprice = remote[sku].price, !.vtags = remote[sku].tags,
                          !.pc = "a_store"]]
       ELSE procs' = [procs EXCEPT ![p] =
                ANext([r EXCEPT !.i = r.i + 1])]

PriceToStore_Current(priceType, variantPrice, offerPrice) == variantPrice

PriceToStore_None(priceType, variantPrice, offerPrice) == NULL

\* the price recorded for the revert
PriceToStore(priceType, variantPrice, offerPrice) ==
    IF priceType = "REGULAR" THEN offerPrice ELSE variantPrice

\* prisma.offerItem.update({ where: { id: item.id }, data: { originalPrice } })
AStore(p) ==
    LET r == procs[p] IN
    /\ r.pc = "a_store"
    /\ resp' = NoResp
    /\ UNCHANGED <<offers, nextId, remote, now, rt>>
    /\ IF r.stale
       THEN /\ procs' = [procs EXCEPT ![p] = Thrown(r)]
            /\ UNCHANGED <<items, hist>>
       ELSE /\ hist' = [hist EXCEPT ![r.oid].mutated = TRUE]
            /\ items' = [items EXCEPT ![r.oid][r.i].originalPrice =
                            PriceToStore(r.ptype, r.vprice, r.its[r.i].offerPrice)]
            /\ procs' = [procs EXCEPT ![p].pc = "a_price"]

AfterPrice_StopOnError(r, nextTags) ==
    IF r.errs THEN [r EXCEPT !.pc = "done"]
    ELSE IF r.otags # <<>> THEN [r EXCEPT !.pc = nextTags]
    ELSE IF r.op = "activate" THEN ANext([r EXCEPT !.i = r.i + 1])
    ELSE RNext([r EXCEPT !.i = r.i + 1])

\* After the price mutation: the tag mutation if the offer has tags.
AfterPrice(r, nextTags) ==
    IF r.otags # <<>> THEN [r EXCEPT !.pc = nextTags]
    ELSE IF r.op = "activate" THEN ANext([r EXCEPT !.i = r.i + 1])
    ELSE RNext([r EXCEPT !.i = r.i + 1])

\* Another offer's request writes the catalog: the round trip being
\* tracked no longer runs alone.
Track(o) == IF rt.oid = o THEN rt ELSE NoRt

\* productVariantsBulkUpdate with price = item.offerPrice; the remote applies
\* it (ok) or answers with userErrors, which are logged
APrice(p) ==
    LET r == procs[p]
        sku == r.its[r.i].sku
    IN
    /\ r.pc = "a_price"
    /\ resp' = NoResp
    /\ UNCHANGED <<offers, items, nextId, now, hist>>
    /\ rt' = Track(r.oid)
    /\ \E ok \in BOOLEAN :
        /\ remote' = IF ok THEN [remote EXCEPT ![sku].price = r.its[r.i].offerPrice]
                     ELSE remote
        /\ procs' = [procs EXCEPT ![p] =
                AfterPrice([r EXCEPT !.errs = r.errs \/ ~ok], "a_tags")]

\* variant.product.tags: the product's tag set as the remote lists it
TagList(tags) == CHOOSE q \in [1..Cardinality(tags) -> tags] : Range(q) = tags

\* [...new Set(list)]: the first occurrence of each element, in order
RECURSIVE Unique(_)
Unique(list) ==
    IF list = <<>> THEN <<>>
    ELSE LET front == Unique(SubSeq(list, 1, Len(list) - 1))
             last == list[Len(list)]
         IN IF last \in Range(front) THEN front ELSE Append(front, last)

MergeTags_Replace(currentTags, offerTags) == Unique(offerTags)

\* [...new Set([...currentTags, ...offerTags])]
MergeTags(currentTags, offerTags) == Unique(currentTags \o offerTags)

\* productUpdate with the merged tags
ATags(p) ==
    LET r == procs[p]
        sku == r.its[r.i].sku
    IN
    /\ r.pc = "a_tags"
    /\ resp' = NoResp
    /\ UNCHANGED <<offers, items, nextId, now, rt, hist>>
    /\ remote' = [remote EXCEPT ![sku].tags =
                    Range(MergeTags(TagList(r.vtags), r.otags))]
    /\ procs' = [procs EXCEPT ![p] =
            ANext([r EXCEPT !.i = r.i + 1])]

\* prisma.offer.update({ where: { id: offerId }, data: { status: "ACTIVE" } })
AStatus(p) ==
    LET r == procs[p] IN
    /\ r.pc = "a_status"
    /\ resp' = NoResp
    /\ UNCHANGED <<items, nextId, remote, now, rt>>
    /\ IF Exists(r.oid)
       THEN /\ offers' = [offers EXCEPT ![r.oid].status = "ACTIVE"]
            /\ hist' = [hist EXCEPT ![r.oid].activated = TRUE]
            /\ procs' = [procs EXCEPT ![p] = Ret(r)]
       ELSE /\ procs' = [procs EXCEPT ![p] = Thrown(r)]
            /\ UNCHANGED <<offers, hist>>

\* ----------------------------------------------------- revertOfferPrices
CanRevert_Any(o) == offers[o].status \in {"ACTIVE", "COMPLETED"}

\* the precondition of revertOfferPrices
CanRevert(o) == offers[o].status = "ACTIVE"

RFind(p) ==
    LET r == procs[p]
        o == r.oid
        r1 == [r EXCEPT !.seen = offers[o].status, !.pre = Prices,
                        !.errs = FALSE, !.stale = FALSE,
                        !.revs = IF r.kind = "sweep" THEN r.revs \cup {o} ELSE r.revs]
    IN
    /\ r.pc = "r_find"
    /\ resp' = NoResp
    /\ UNCHANGED <<offers, items, nextId, remote, now, rt, hist>>
    /\ IF CanRevert(o)
       THEN procs' = [procs EXCEPT ![p] =
                RNext([r1 EXCEPT !.ptype = offers[o].priceType,
                                 !.otags = ParseTags(offers[o].tags),
                                 !.its = items[o], !.i = 1])]
       ELSE procs' = [procs EXCEPT ![p] = Ret(r1)]

RQuery(p) ==
    LET r == procs[p]
        sku == r.its[r.i].sku
    IN
    /\ r.pc = "r_query"
    /\ resp' = NoResp
    /\ UNCHANGED <<offers, items, nextId, remote, now, rt, hist>>
    /\ IF sku \in Catalog
       THEN procs' = [procs EXCEPT ![p] =
                [r EXCEPT !.vtags = remote[sku].tags, !.pc = "r_price"]]
       ELSE procs' = [procs EXCEPT ![p] =
                RNext([r EXCEPT !.i = r.i + 1])]

\* productVariantsBulkUpdate with price = item.originalPrice; the answer,
\* userErrors included, is not read
RPrice(p) ==
    LET r == procs[p]
        sku == r.its[r.i].sku
    IN
    /\ r.pc = "r_price"
    /\ resp' = NoResp
    /\ UNCHANGED <<offers, items, nextId, now, hist>>
    /\ rt' = Track(r.oid)
    /\ \E ok \in BOOLEAN :
        /\ remote' = IF ok THEN [remote EXCEPT ![sku].price = r.its[r.i].originalPrice]
                     ELSE remote
        /\ procs' = [procs EXCEPT ![p] =
                AfterPrice([r EXCEPT !.errs = r.errs \/ ~ok], "r_tags")]

\* currentTags.filter(t => !offerTags.includes(t))
RemoveTags(currentTags, offerTags) == currentTags \ Range(offerTags)

RTags(p) ==
    LET r == procs[p]
        sku == r.its[r.i].sku
    IN
    /\ r.pc = "r_tags"
    /\ resp' = NoResp
    /\ UNCHANGED <<offers, items, nextId, now, rt, hist>>
    /\ remote' = [remote EXCEPT ![sku].tags = RemoveTags(r.vtags, r.otags)]
    /\ procs' = [procs EXCEPT ![p] =
            RNext([r EXCEPT !.i = r.i + 1])]

RStatus(p) ==
    LET r == procs[p] IN
    /\ r.pc = "r_status"
    /\ resp' = NoResp
    /\ UNCHANGED <<items, nextId, remote, now, rt, hist>>
    /\ IF Exists(r.oid)
       THEN /\ offers' = [offers EXCEPT ![r.oid].status = "COMPLETED"]
            /\ procs' = [procs EXCEPT ![p] = Ret(r)]
       ELSE /\ procs' = [procs EXCEPT ![p] = Thrown(r)]
            /\ UNCHANGED offers

\* ------------------------------------------------------- run-job (sweep)
RECURSIVE Sorted(_)
Sorted(S) ==
    IF S = {} THEN <<>>
    ELSE LET m == CHOOSE x \in S : \A y \in S : x <= y
         IN <<m>> \o Sorted(S \ {m})

DuePending_NullIsPast(t) ==
    {o \in OfferIds : offers[o].status = "PENDING" /\ offers[o].startDate <= t}

DuePending_Before(t) ==
    {o \in OfferIds : /\ offers[o].status = "PENDING"
                      /\ offers[o].startDate # NULL
                      /\ offers[o].startDate < t}

\* where: { status: "PENDING", startDate: { lte: now } }
DuePending(t) ==
    {o \in OfferIds : /\ offers[o].status = "PENDING"
                      /\ offers[o].startDate # NULL
                      /\ offers[o].startDate <= t}

DueActive_DayLate(t) ==
    {o \in OfferIds : /\ offers[o].status = "ACTIVE"
                      /\ offers[o].endDate # NULL
                      /\ offers[o].endDate + 1 < t}

\* where: { status: "ACTIVE", endDate: { lt: now } }
DueActive(t) ==
    {o \in OfferIds : /\ offers[o].status = "ACTIVE"
                      /\ offers[o].endDate # NULL
                      /\ offers[o].endDate < t}

SPending(p) ==
    LET r == procs[p]
        q == Sorted(DuePending(now))
        r1 == [r EXCEPT !.now = now, !.queue = q, !.due.act = Range(q)]
    IN
    /\ r.pc = "s_pending"
    /\ resp' = NoResp
    /\ UNCHANGED <<offers, items, nextId, remote, now, rt, hist>>
    /\ procs' = [procs EXCEPT ![p] =
            IF q = <<>> THEN [r1 EXCEPT !.pc = "s_active"]
            ELSE Begin(r1, "activate", Head(q))]

SActive(p) ==
    LET r == procs[p]
        q == Sorted(DueActive(r.now))
        r1 == [r EXCEPT !.queue = q, !.due.rev = Range(q)]
    IN
    /\ r.pc = "s_active"
    /\ resp' = NoResp
    /\ UNCHANGED <<offers, items, nextId, remote, now, rt, hist>>
    /\ procs' = [procs EXCEPT ![p] =
            IF q = <<>> THEN Ret([r1 EXCEPT !.op = "revert"])
            ELSE Begin(r1, "revert", Head(q))]

\* The submissions of the scheduling environment: every schedule and both
\* price types, for one matched item.
OneItem == <<[sku |-> "A", price |-> "2"]>>

Schedules == {d \in Dates \X Dates : d[1] <= d[2]}

SweepCreates ==
    {CreateForm(d[1], d[2], <<"sale">>, Csv("ACTUAL", OneItem)) : d \in Schedules}

SweepEdits ==
    {EditForm(pt, "ACTUAL", d[1], d[2], <<"sale">>, NoFile) :
        pt \in {"OFFER", "REGULAR"}, d \in Schedules}

\* The submissions of the concurrent environment.
ConcCreates == {CreateForm(1, 1, <<"sale">>, Csv("ACTUAL", OneItem))}

ConcEdits ==
    {EditForm("OFFER", "ACTUAL", 1, 1, <<"sale">>, f) :
        f \in {NoFile, Csv("ACTUAL", OneItem)}}

\* ---------------------------------------------------------- specifications
Step(p) ==
    \/ AFind(p) \/ AQuery(p) \/ AStore(p) \/ APrice(p) \/ ATags(p) \/ AStatus(p)
    \/ RFind(p) \/ RQuery(p) \/ RPrice(p) \/ RTags(p) \/ RStatus(p)
    \/ SPending(p) \/ SActive(p)
    \/ Abort(p) \/ Respond(p)

\* Requests about the first offer arrive at any time and interleave at
\* their awaits.
Next ==
    \/ nextId = 1 /\ \E inp \in ConcCreates : CreateOffer(inp)
    \/ \E inp \in ConcEdits : EditOffer(1, inp)
    \/ DeleteOffer(1)
    \/ \E p \in Procs : StartActivate(p, 1)
    \/ \E p \in Procs : StartRevert(p, 1)
    \/ \E p \in Procs : StartSweep(p)
    \/ \E p \in Procs : Step(p)

Spec == Init /\ [][Next]_vars

\* One request at a time (a request arrives only when none is in flight),
\* all of them about the first offer.
SeqNext ==
    \/ AllIdle /\ nextId = 1 /\ \E inp \in SeqCreates : CreateOffer(inp)
    \/ AllIdle /\ \E o \in OfferIds, inp \in SeqEdits : EditOffer(o, inp)
    \/ AllIdle /\ \E o \in OfferIds : DeleteOffer(o)
    \/ AllIdle /\ \E o \in OfferIds : StartActivate("p1", o)
    \/ AllIdle /\ \E o \in OfferIds : StartRevert("p1", o)
    \/ AllIdle /\ StartSweep("p1")
    \/ Step("p1")

SeqSpec == Init /\ [][SeqNext]_vars

\* One request at a time, over all the offers, while the clock advances.
SweepNext ==
    \/ AllIdle /\ \E inp \in SweepCreates : CreateOffer(inp)
    \/ AllIdle /\ \E o \in OfferIds, inp \in SweepEdits : EditOffer(o, inp)
    \/ AllIdle /\ \E o \in OfferIds : DeleteOffer(o)
    \/ AllIdle /\ Tick
    \/ AllIdle /\ \E o \in OfferIds : StartActivate("p1", o)
    \/ AllIdle /\ \E o \in OfferIds : StartRevert("p1", o)
    \/ AllIdle /\ StartSweep("p1")
    \/ Step("p1")

SweepSpec == Init /\ [][SweepNext]_vars

\* The submissions of the pricing environment: both formats, markups and
\* percent discounts for which the computed price is a whole number.
CalcPrices == {"2", "4"}
CalcMarkups == {1, 2, 3}
CalcDiscounts == {0, 50, 100}

CalcFiles ==
    {Csv(fmt, [k \in DOMAIN ps |-> [sku |-> "A", price |-> ps[k]]]) :
        fmt \in {"ACTUAL", "BASE"}, ps \in SeqsUpTo(CalcPrices, MaxItems) \ {<<>>}}

CalcCreates == {CreateForm(1, 1, <<"">>, f) : f \in CalcFiles}

CalcEdits ==
    {[EditForm("OFFER", fmt, 1, 1, <<"">>, f) EXCEPT !.markup = m, !.discount = d] :
        fmt \in {"ACTUAL", "BASE"}, f \in CalcFiles \cup {NoFile},
        m \in CalcMarkups, d \in CalcDiscounts}

\* Offers are uploaded and re-uploaded; nothing is activated.
CalcNext ==
    \/ nextId = 1 /\ \E inp \in CalcCreates : CreateOffer(inp)
    \/ \E inp \in CalcEdits : EditOffer(1, inp)
    \/ DeleteOffer(1)

CalcSpec == Init /\ [][CalcNext]_vars

\* The submissions of the parsing environment: CSV texts whose headers
\* spell the column names in several ways and orders, with or without the
\* required columns and with a generic price column, and whose lines are
\* data rows (cells padded or not) or empty.
ParseHeaders ==
    {<<"sku", "actual price">>, <<"Actual Price", " Sku ">>,
     <<"SKU", "Price", " ACTUAL PRICE ">>, <<"SKU", " BASE PRICE ">>,
     <<"sku", "price">>, <<"name", "Actual Price">>}

\* Two data rows for a header: a padded SKU with the price 2 and a plain
\* SKU with the price 4; a generic price column holds the other price.
ParseRow1(header) ==
    [j \in DOMAIN header |->
        IF header[j] \in {"sku", " Sku ", "SKU", "name"} THEN " A "
        ELSE IF header[j] \in {"Price", "price"} THEN "4" ELSE "2"]

ParseRow2(header) ==
    [j \in DOMAIN header |->
        IF header[j] \in {"sku", " Sku ", "SKU", "name"} THEN "Z"
        ELSE IF header[j] \in {"Price", "price"} THEN "2" ELSE "4"]

ParseTexts ==
    UNION {[header : {h},
            lines : SeqsUpTo({ParseRow1(h), ParseRow2(h), <<>>}, MaxItems)] :
              h \in ParseHeaders}

ParseCreates == {CreateForm(1, 1, <<"">>, f) : f \in ParseTexts}

ParseEdits ==
    {EditForm("OFFER", fmt, 1, 1, <<"">>, f) :
        fmt \in {"ACTUAL", "BASE"}, f \in ParseTexts}
    \cup {EditForm(pt, fmt, 1, 1, t, NoFile) :
        pt \in {"OFFER", "REGULAR"}, fmt \in {"ACTUAL", "BASE"}, t \in TagInputs}

\* Offers are uploaded and re-uploaded; nothing is activated.
ParseNext ==
    \/ nextId = 1 /\ \E inp \in ParseCreates : CreateOffer(inp)
    \/ \E inp \in ParseEdits : EditOffer(1, inp)

ParseSpec == Init /\ [][ParseNext]_vars

\* The tag environment: products carry tags of their own before any offer
\* is activated, and an offer's tag field may name none, one the product
\* has, or several with a repetition.
ShopTags == {"new", "sale"}
TagFields == {<<"">>, <<"sale">>, <<"sale", "vip", "sale">>}

TagInit ==
    /\ offers = [o \in OfferIds |-> NoOffer]
    /\ items = [o \in OfferIds |-> <<>>]
    /\ nextId = 1
    /\ remote \in [Catalog -> [price : {1}, tags : SUBSET ShopTags]]
    /\ now = 1
    /\ procs = [p \in Procs |-> IdleProc]
    /\ resp = NoResp
    /\ rt = NoRt
    /\ hist = [o \in OfferIds |-> NoHist]

TagCreates ==
    {CreateForm(1, 1, t, Csv("ACTUAL", rows)) : t \in TagFields, rows \in ItemLists}

\* One request at a time about the first offer.
TagNext ==
    \/ AllIdle /\ nextId = 1 /\ \E inp \in TagCreates : CreateOffer(inp)
    \/ AllIdle /\ StartActivate("p1", 1)
    \/ AllIdle /\ StartRevert("p1", 1)
    \/ AllIdle /\ StartSweep("p1")
    \/ Step("p1")

TagSpec == TagInit /\ [][TagNext]_vars

\* The tag environment started from products that all carry every shop
\* tag, among them one that offers name too.
TaggedInit ==
    /\ offers = [o \in OfferIds |-> NoOffer]
    /\ items = [o \in OfferIds |-> <<>>]
    /\ nextId = 1
    /\ remote = [s \in Catalog |-> [price |-> 1, tags |-> ShopTags]]
    /\ now = 1
    /\ procs = [p \in Procs |-> IdleProc]
    /\ resp = NoResp
    /\ rt = NoRt
    /\ hist = [o \in OfferIds |-> NoHist]

TaggedSpec == TaggedInit /\ [][TagNext]_vars

\* ------------------------------------------------------------ properties
\* C1: under any interleaving of activate, revert, sweep, edit and delete
\* requests the status of an offer never moves backwards: a COMPLETED offer
\* is never ACTIVE or PENDING again, an ACTIVE offer never PENDING again.
C1_StatusMonotone ==
    [][\A o \in OfferIds :
          (Exists(o) /\ offers'[o].status # "NONE")
              => Rank(offers'[o].status) >= Rank(offers[o].status)]_vars

\* The item this call is about to write is the first one it mutates.
FirstOfCall(r) == \A k \in 1..(r.i - 1) : r.its[k].sku \notin Catalog

\* An activate call that finds its offer missing or not PENDING returns at
\* once: no lookup, no mutation, no originalPrice, no status change.
ActivateNoOp ==
    \A p \in Procs :
        (procs[p].pc = "a_find" /\ offers[procs[p].oid].status # "PENDING")
            => /\ offers' = offers /\ items' = items /\ remote' = remote
               /\ procs'[p].its = <<>>
               /\ procs'[p].pc \notin {"a_query", "a_store", "a_price", "a_tags", "a_status"}

\* C2 (as stated): activate on a missing or non-PENDING offer is a no-op,
\* and over non-overlapping activate calls on one offer at most one call
\* performs item mutations: a call never starts mutating an offer that
\* an earlier call has mutated.
C2_AtMostOneCallMutates ==
    [][/\ ActivateNoOp
       /\ \A p \in Procs :
            (procs[p].pc = "a_store" /\ procs'[p].pc = "a_price"
                /\ FirstOfCall(procs[p]))
                => ~hist[procs[p].oid].mutated]_vars

\* C2 (amended): activate on a missing or non-PENDING offer is a no-op, and
\* once an activate call on an offer has run to completion no later call
\* mutates its items; a call that stopped mid-loop leaves the offer PENDING
\* and the next call repeats the mutations.
C2_NoOpAfterCompletion ==
    [][/\ ActivateNoOp
       /\ \A p \in Procs :
            (procs[p].pc \in {"a_store", "a_price", "a_tags"}
                /\ procs'[p].pc \notin {"idle", procs[p].pc})
                => ~hist[procs[p].oid].activated]_vars

\* An activate call on an offer already activated has returned, after an
\* earlier call had mutated the offer's items.
C2_Witness ==
    \E p \in Procs :
        /\ procs[p].pc = "done" /\ procs[p].kind = "activate"
        /\ procs[p].seen = "ACTIVE"
        /\ hist[procs[p].oid].activated /\ hist[procs[p].oid].mutated

\* C3: revert on a missing or non-ACTIVE offer is a no-op: no lookup, no
\* remote mutation, no change of the offer's status or of any item.
C3_RevertNoOp ==
    [][\A p \in Procs :
          (procs[p].pc = "r_find" /\ offers[procs[p].oid].status # "ACTIVE")
              => /\ offers' = offers /\ items' = items /\ remote' = remote
                 /\ procs'[p].its = <<>>
                 /\ procs'[p].pc \notin {"r_query", "r_price", "r_tags", "r_status"}]_vars

\* A revert call on a COMPLETED offer with recorded prices has returned.
C3_Witness ==
    \E p \in Procs :
        /\ procs[p].pc = "done" /\ procs[p].kind = "revert"
        /\ procs[p].seen = "COMPLETED"
        /\ \E k \in DOMAIN items[procs[p].oid] :
              items[procs[p].oid][k].originalPrice # NULL

\* An activate call that found its offer PENDING with the given price type
\* has run to completion and has not been answered yet.
Activated(p, ptype) ==
    /\ procs[p].pc = "done" /\ procs[p].kind = "activate"
    /\ procs[p].seen = "PENDING" /\ procs[p].ptype = ptype

\* The same for a revert call that found its offer ACTIVE.
Reverted(p, ptype) ==
    /\ procs[p].pc = "done" /\ procs[p].kind = "revert"
    /\ procs[p].seen = "ACTIVE" /\ procs[p].ptype = ptype

Matched(it) == it.sku \in Catalog

\* C4: after activate completes on a PENDING offer of type OFFER the offer
\* is ACTIVE and every item whose SKU matched a variant has originalPrice
\* equal to the price the variant had before the call began, for every item
\* list, lists with a repeated SKU included.
C4_OriginalIsPreActivationPrice ==
    \A p \in Procs :
        Activated(p, "OFFER")
            => /\ offers[procs[p].oid].status = "ACTIVE"
               /\ \A k \in DOMAIN items[procs[p].oid] :
                     Matched(items[procs[p].oid][k])
                         => items[procs[p].oid][k].originalPrice
                                = procs[p].pre[items[procs[p].oid][k].sku]

\* C5 (as stated): after activate completes on a PENDING offer of type
\* REGULAR every item of the offer has originalPrice equal to its own
\* offerPrice.
C5_EveryItemSelfReferential ==
    \A p \in Procs :
        Activated(p, "REGULAR")
            => \A k \in DOMAIN items[procs[p].oid] :
                  items[procs[p].oid][k].originalPrice
                      = items[procs[p].oid][k].offerPrice

\* C5 (amended): after activate completes on a PENDING offer of type
\* REGULAR every item whose SKU matched a remote variant has originalPrice
\* equal to its own offerPrice; an item whose SKU matched no variant is
\* skipped and its originalPrice stays unset.
C5_MatchedItemsSelfReferential ==
    \A p \in Procs :
        Activated(p, "REGULAR")
            => \A k \in DOMAIN items[procs[p].oid] :
                  items[procs[p].oid][k].originalPrice
                      = IF Matched(items[procs[p].oid][k])
                        THEN items[procs[p].oid][k].offerPrice
                        ELSE NULL

\* A REGULAR activation has completed on an offer with a matched and an
\* unmatched item.
C5_Witness ==
    \E p \in Procs :
        /\ Activated(p, "REGULAR")
        /\ \E k \in DOMAIN items[procs[p].oid] : Matched(items[procs[p].oid][k])
        /\ \E k \in DOMAIN items[procs[p].oid] : ~Matched(items[procs[p].oid][k])

\* C6: revert on an ACTIVE offer of type REGULAR does not change any remote
\* price: every variant's price after the call is its price before the call.
C6_RegularRevertKeepsPrices ==
    \A p \in Procs : Reverted(p, "REGULAR") => Prices = procs[p].pre

\* C7: after revert completes on an ACTIVE offer of type OFFER the offer is
\* COMPLETED and, for each item with an originalPrice whose SKU matches a
\* variant, the variant's remote price equals that originalPrice (stated
\* for the calls none of whose price mutations returned user errors).
C7_RemoteEqualsOriginal ==
    \A p \in Procs :
        (Reverted(p, "OFFER") /\ ~procs[p].errs)
            => /\ offers[procs[p].oid].status = "COMPLETED"
               /\ \A k \in DOMAIN items[procs[p].oid] :
                     (Matched(items[procs[p].oid][k])
                         /\ items[procs[p].oid][k].originalPrice # NULL)
                         => remote[items[procs[p].oid][k].sku].price
                                = items[procs[p].oid][k].originalPrice

\* C8: activate then revert of an OFFER offer, each run to completion with
\* no other writer of the catalog in between, leaves every variant's remote
\* price equal to the price it had before activate (stated for the reverts
\* none of whose price mutations returned user errors).
C8_RoundTripRestoresPrices ==
    \A p \in Procs :
        (Reverted(p, "OFFER") /\ ~procs[p].errs /\ rt.oid = procs[p].oid)
            => Prices = rt.pre

\* What a sweep that took its clock reading t may still find to do.
StartPassed(o, t) ==
    /\ offers[o].status = "PENDING"
    /\ offers[o].startDate # NULL /\ offers[o].startDate <= t

EndPassed(o, t) ==
    /\ offers[o].status = "ACTIVE"
    /\ offers[o].endDate # NULL /\ offers[o].endDate < t

\* When a sweep returns it has invoked activate on exactly the offers its
\* first query answered and revert on exactly those of its second, and no
\* offer is left PENDING with startDate <= now or ACTIVE with endDate < now.
SweepPost ==
    \A p \in Procs :
        (procs[p].pc = "done" /\ procs[p].kind = "sweep")
            => /\ procs[p].acts = procs[p].due.act
               /\ procs[p].revs = procs[p].due.rev
               /\ \A o \in OfferIds :
                     ~StartPassed(o, procs[p].now) /\ ~EndPassed(o, procs[p].now)

\* The queries of a sweep answer exactly the qualifying offers, and a step
\* of a sweep changes only an offer that qualifies: its status moves on
\* and, while it is activated, its items get their originalPrice.
SweepStep ==
    \A p \in Procs :
        (procs[p].kind = "sweep" /\ procs'[p].pc # "idle")
            => /\ procs[p].pc = "s_pending"
                    => procs'[p].due.act = {o \in OfferIds : StartPassed(o, now)}
               /\ procs[p].pc = "s_active"
                    => procs'[p].due.rev = {o \in OfferIds : EndPassed(o, procs[p].now)}
               /\ \A o \in OfferIds :
                    /\ offers'[o] # offers[o]
                         => \/ /\ StartPassed(o, procs[p].now)
                               /\ offers'[o] = [offers[o] EXCEPT !.status = "ACTIVE"]
                            \/ /\ EndPassed(o, procs[p].now)
                               /\ offers'[o] = [offers[o] EXCEPT !.status = "COMPLETED"]
                    /\ items'[o] # items[o] => StartPassed(o, procs[p].now)

\* C9: a sweep that runs without a concurrent request invokes activate on
\* every offer that is PENDING with startDate <= now and revert on every
\* offer that is ACTIVE with endDate < now, so that when it returns no such
\* offer is left; offers that do not qualify are left unchanged.
C9_SweepSettlesDueOffers == []SweepPost /\ [][SweepStep]_vars

\* A sweep has returned after activating one offer and reverting one, while
\* an offer that did not qualify is still PENDING.
C9_Witness ==
    \E p \in Procs :
        /\ procs[p].pc = "done" /\ procs[p].kind = "sweep"
        /\ procs[p].acts # {} /\ procs[p].revs # {}
        /\ \E o \in OfferIds : offers[o].status = "PENDING"

\* C10: an edit submitted for an ACTIVE or COMPLETED offer is rejected and
\* leaves the offer's fields and its items, every originalPrice included,
\* unchanged.
C10_EditOnlyPending ==
    [][\A o \in OfferIds :
          (offers[o].status \in {"ACTIVE", "COMPLETED"}
              /\ \E inp \in SeqEdits : EditOffer(o, inp))
              => /\ resp' = "rejected"
                 /\ offers'[o] = offers[o]
                 /\ items'[o] = items[o]]_vars

\* The SKUs of offer o's items that carry a recorded originalPrice.
RecordedSkus(its) == {its[k].sku : k \in {j \in DOMAIN its : its[j].originalPrice # NULL}}

ItemSkus(its) == {its[k].sku : k \in DOMAIN its}

\* C11: once an item's originalPrice has been set it is never cleared while
\* the owning offer exists: after any request step, a SKU of the offer that
\* had a recorded originalPrice still has one, unless the offer no longer
\* has an item for that SKU (stated for the offers that have been
\* activated: ACTIVE or COMPLETED).
C11_OriginalPriceNeverCleared ==
    [][\A o \in OfferIds :
          (offers[o].status \in {"ACTIVE", "COMPLETED"} /\ offers'[o].status # "NONE")
              => \A s \in RecordedSkus(items[o]) :
                    s \in RecordedSkus(items'[o]) \/ s \notin ItemSkus(items'[o])]_vars

\* Every OfferItem belongs to an existing offer.
NoOrphans == \A o \in OfferIds : items[o] # <<>> => Exists(o)

\* A delete of an existing offer leaves neither the offer nor any of its
\* items, whatever its status; an accepted edit that uploads a CSV leaves
\* the offer with one item per uploaded row, in row order, and no other.
DeleteAndReplace ==
    \A o \in OfferIds :
        /\ (Exists(o) /\ DeleteOffer(o))
              => offers'[o].status = "NONE" /\ items'[o] = <<>>
        /\ \A inp \in SeqEdits :
              (Exists(o) /\ inp.file # NoFile /\ EditOffer(o, inp) /\ resp' # "rejected")
                  => /\ Len(items'[o]) = Len(inp.file.lines)
                     /\ \A k \in DOMAIN items'[o] :
                           /\ items'[o][k].sku = inp.file.lines[k][1]
                           /\ items'[o][k].originalPrice = NULL

\* C12: in every reachable state every OfferItem belongs to an existing
\* offer: a delete removes the offer with all its items whatever its
\* status, and an edit with a new CSV leaves only the uploaded items.
C12_NoOrphanItems == []NoOrphans /\ [][DeleteAndReplace]_vars

\* An offer that was activated (its price reached the catalog) has been
\* deleted with its items, and nothing of it is left.
C12_Witness ==
    /\ nextId = 2 /\ ~Exists(1) /\ items[1] = <<>>
    /\ remote["A"].price = 2 /\ AllIdle

\* The spellings of the required column names, compared without case and
\* surrounding blanks.
SkuNames == {"sku", "SKU", " Sku "}
ActualPriceNames == {"actual price", "Actual Price", " ACTUAL PRICE "}
BasePriceNames == {"base price", "Base Price", " BASE PRICE "}

\* A CSV the parser rejects: it has data rows and lacks the sku column or
\* the price column of the requested format.
CsvRejected(csv, fmt) ==
    /\ \E k \in DOMAIN csv.lines : csv.lines[k] # <<>>
    /\ \/ Range(csv.header) \cap SkuNames = {}
       \/ (fmt = "BASE" /\ Range(csv.header) \cap BasePriceNames = {})
       \/ (fmt # "BASE" /\ Range(csv.header) \cap ActualPriceNames = {})

InvalidCreate(inp) ==
    \/ ~inp.title \/ ~inp.vendor \/ inp.startDate = NULL \/ inp.endDate = NULL
    \/ inp.file = NoFile
    \/ CsvRejected(inp.file, "ACTUAL")

InvalidEdit(inp) ==
    \/ ~inp.title \/ ~inp.vendor \/ inp.priceType = "" \/ inp.pricingFormat = ""
    \/ (inp.priceType = "OFFER" /\ (inp.startDate = NULL \/ inp.endDate = NULL))
    \/ (inp.pricingFormat = "BASE" /\ (inp.markup = NULL \/ inp.discount = NULL))
    \/ (inp.file # NoFile /\ CsvRejected(inp.file, inp.pricingFormat))

\* The submission is answered with an error and both tables are as before.
Refused ==
    /\ resp' = "rejected"
    /\ offers' = offers /\ items' = items /\ nextId' = nextId

\* C13: a create or edit submission that fails validation (a missing
\* required field, missing dates for OFFER, missing markup/discount for
\* BASE, a CSV the parser rejects) returns an error and leaves the Offer and
\* OfferItem tables exactly as they were.
C13_InvalidSubmissionChangesNothing ==
    [][/\ \A inp \in SeqCreates :
            (InvalidCreate(inp) /\ CreateOffer(inp)) => Refused
       /\ \A o \in OfferIds : \A inp \in SeqEdits :
            (InvalidEdit(inp) /\ EditOffer(o, inp)) => Refused]_vars

\* A submission has just been refused while an offer with items exists.
C13_Witness ==
    /\ resp = "rejected"
    /\ \E o \in OfferIds : Exists(o) /\ items[o] # <<>>

\* An activate call that found its offer PENDING has returned: the offer is
\* ACTIVE and every matched item has been processed (its originalPrice is
\* recorded), whether or not price mutations returned user errors.
ActivatedAll ==
    \A p \in Procs :
        (procs[p].pc = "done" /\ procs[p].kind = "activate" /\ procs[p].seen = "PENDING")
            => /\ offers[procs[p].oid].status = "ACTIVE"
               /\ \A k \in DOMAIN items[procs[p].oid] :
                     Matched(items[procs[p].oid][k])
                         => items[procs[p].oid][k].originalPrice # NULL

\* After the price mutation of item i, refused or not, the call goes on
\* with the tag mutation of item i or with the items after i, in order.
GoesOnInOrder ==
    \A p \in Procs :
        (procs[p].pc = "a_price" /\ procs'[p].pc # "idle")
            => \/ procs'[p].pc = "a_tags" /\ procs'[p].i = procs[p].i
               \/ procs'[p].pc = "a_query" /\ procs'[p].i = procs[p].i + 1
               \/ procs'[p].pc = "a_status" /\ procs[p].i = Len(procs[p].its)

\* C14: activate on a PENDING offer tolerates partial failure: whichever
\* price mutations return user errors, every item is still processed in
\* order and, when every remote call returns, the offer ends ACTIVE.
C14_ActivateToleratesUserErrors == []ActivatedAll /\ [][GoesOnInOrder]_vars

\* An activate call in which a price mutation returned user errors has
\* processed both items of its offer and set it ACTIVE.
C14_Witness ==
    \E p \in Procs :
        /\ procs[p].pc = "done" /\ procs[p].kind = "activate"
        /\ procs[p].seen = "PENDING" /\ procs[p].errs
        /\ offers[procs[p].oid].status = "ACTIVE"
        /\ Len(items[procs[p].oid]) = 2
        /\ \A k \in DOMAIN items[procs[p].oid] :
              items[procs[p].oid][k].originalPrice # NULL

\* The lookup of an unmatched SKU issues no mutation and writes nothing;
\* the call goes on with the next item or, after the last, the status.
MissSkipsItem ==
    \A p \in Procs :
        (procs[p].pc = "a_query" /\ procs'[p].pc # "idle"
            /\ ~Matched(procs[p].its[procs[p].i]))
            => /\ remote' = remote /\ items' = items
               /\ procs'[p].i = procs[p].i + 1
               /\ procs'[p].pc = IF procs[p].i < Len(procs[p].its)
                                 THEN "a_query" ELSE "a_status"

\* When the activate call returns the offer is ACTIVE, the unmatched items
\* have no originalPrice and the matched ones have; a revert call never
\* looks up or mutates an item without originalPrice, and when it returns
\* the offer is COMPLETED.
MissesStaySkipped ==
    \A p \in Procs :
        /\ (procs[p].pc = "done" /\ procs[p].kind = "activate" /\ procs[p].seen = "PENDING")
              => /\ offers[procs[p].oid].status = "ACTIVE"
                 /\ \A k \in DOMAIN items[procs[p].oid] :
                       Matched(items[procs[p].oid][k])
                           <=> items[procs[p].oid][k].originalPrice # NULL
        /\ procs[p].pc \in {"r_query", "r_price", "r_tags"}
              => procs[p].its[procs[p].i].originalPrice # NULL
        /\ (procs[p].pc = "done" /\ procs[p].kind = "revert" /\ procs[p].seen = "ACTIVE")
              => offers[procs[p].oid].status = "COMPLETED"

\* C15: during activate an item whose SKU matches no variant is skipped: no
\* mutation is issued for it, its originalPrice stays null, the remaining
\* items are processed and the offer ends ACTIVE; a later revert skips the
\* item as well and ends COMPLETED.
C15_UnmatchedItemSkipped == []MissesStaySkipped /\ [][MissSkipsItem]_vars

\* A revert call has completed an offer that has an unmatched item, still
\* without originalPrice, before a matched item whose price it restored.
C15_Witness ==
    \E p \in Procs :
        /\ procs[p].pc = "done" /\ procs[p].kind = "revert" /\ procs[p].seen = "ACTIVE"
        /\ offers[procs[p].oid].status = "COMPLETED"
        /\ Len(items[procs[p].oid]) = 2
        /\ ~Matched(items[procs[p].oid][1]) /\ items[procs[p].oid][1].originalPrice = NULL
        /\ Matched(items[procs[p].oid][2]) /\ items[procs[p].oid][2].originalPrice # NULL

\* C16: for pricingFormat BASE the offerPrice stored for each uploaded item
\* is basePrice * markup * (1 - discount/100), basePrice being the item's
\* CSV price (so discount 0 gives basePrice * markup and markup 1 gives
\* basePrice * (1 - discount/100)); for ACTUAL it is the CSV price itself.
C16_StoredOfferPrice ==
    [][\A inp \in CalcEdits :
          (Exists(1) /\ EditOffer(1, inp) /\ resp' = NoResp)
              => \A k \in DOMAIN inp.file.lines :
                    /\ k \in DOMAIN items'[1]
                    /\ inp.pricingFormat = "ACTUAL"
                         => items'[1][k].offerPrice = ParseFloat(inp.file.lines[k][2])
                    /\ inp.pricingFormat = "BASE"
                         => /\ items'[1][k].offerPrice * 100
                                = ParseFloat(inp.file.lines[k][2]) * inp.markup * (100 - inp.discount)
                            /\ inp.discount = 0
                                 => items'[1][k].offerPrice
                                        = ParseFloat(inp.file.lines[k][2]) * inp.markup
                            /\ inp.markup = 1
                                 => items'[1][k].offerPrice * 100
                                        = ParseFloat(inp.file.lines[k][2]) * (100 - inp.discount)]_vars

\* A BASE upload with markup 3 and discount 50 has stored 6 for the base
\* price 4, next to 3 for the base price 2.
C16_Witness ==
    /\ offers[1].pricingFormat = "BASE"
    /\ offers[1].markup = 3 /\ offers[1].discount = 50
    /\ Len(items[1]) = 2
    /\ items[1][1].offerPrice = 6 /\ items[1][2].offerPrice = 3

\* The positions of the sku column and of the format's price column in a
\* header that has them, and the data rows of a text.
SkuAt(header) == CHOOSE j \in DOMAIN header : header[j] \in SkuNames

PriceAt(header, fmt) ==
    CHOOSE j \in DOMAIN header :
        header[j] \in (IF fmt = "BASE" THEN BasePriceNames ELSE ActualPriceNames)

HasColumns(header, fmt) ==
    /\ Range(header) \cap SkuNames # {}
    /\ Range(header) \cap (IF fmt = "BASE" THEN BasePriceNames ELSE ActualPriceNames) # {}

NonEmptyRows(csv) == SelectSeq(csv.lines, LAMBDA l : l # <<>>)

Unpadded(cell) == IF cell = " A " THEN "A" ELSE cell

\* The items stored by an accepted upload of csv in format fmt are one per
\* non-empty row, in row order, with the row's SKU (cell(sku)) and the
\* price computed from the row's cell in the format's price column.
StoresRows(its, csv, fmt, markup, discount, sku(_)) ==
    /\ Len(its) = Len(NonEmptyRows(csv))
    /\ \A k \in DOMAIN its :
          /\ its[k].sku = sku(NonEmptyRows(csv)[k][SkuAt(csv.header)])
          /\ its[k].offerPrice * 100 =
                 IF fmt = "BASE"
                 THEN ParseFloat(NonEmptyRows(csv)[k][PriceAt(csv.header, fmt)])
                          * markup * (100 - discount)
                 ELSE ParseFloat(NonEmptyRows(csv)[k][PriceAt(csv.header, fmt)]) * 100

Verbatim(cell) == cell

UploadsStoreRows(sku(_)) ==
    /\ \A inp \in ParseCreates :
          (HasColumns(inp.file.header, "ACTUAL") /\ nextId = 1 /\ CreateOffer(inp))
              => /\ nextId' = 2
                 /\ StoresRows(items'[1], inp.file, "ACTUAL", 1, 0, sku)
    /\ \A inp \in ParseEdits :
          (inp.file # NoFile /\ HasColumns(inp.file.header, inp.pricingFormat)
              /\ Exists(1) /\ EditOffer(1, inp))
              => /\ resp' = NoResp
                 /\ StoresRows(items'[1], inp.file, inp.pricingFormat,
                               inp.markup, inp.discount, sku)

\* C17 (as stated): for every CSV text with a sku column and the price
\* column of the requested format (names compared without case, trimmed),
\* parseCSV returns one record per non-empty data row, in row order, each
\* carrying that row's SKU and price strings as they stand in the row.
C17_RecordsVerbatim == [][UploadsStoreRows(Verbatim)]_vars

\* C17 (amended): the same, each record carrying the row's SKU and price
\* cells with their surrounding blanks removed.
C17_RecordsTrimmed == [][UploadsStoreRows(Unpadded)]_vars

\* An upload has stored two rows in order, the first from a padded SKU
\* cell, with their different prices.
C17_Witness ==
    /\ Exists(1) /\ Len(items[1]) = 2
    /\ items[1][1].sku = "A" /\ items[1][1].offerPrice = 2
    /\ items[1][2].sku = "Z" /\ items[1][2].offerPrice = 4

\* A create or edit whose CSV lacks the sku column or the format's price
\* column is refused.
MissingColumnRefused ==
    /\ \A inp \in ParseCreates :
          (~HasColumns(inp.file.header, "ACTUAL") /\ nextId = 1 /\ CreateOffer(inp))
              => Refused
    /\ \A inp \in ParseEdits :
          (inp.file # NoFile /\ ~HasColumns(inp.file.header, inp.pricingFormat)
              /\ EditOffer(1, inp))
              => Refused

\* C18: parseCSV fails for every CSV text whose header lacks the sku column
\* or the price column named for the requested format, even when a column
\* named price is present, whatever the number of data rows, none included.
\* Violated: the columns are looked for in the first record only, so a text
\* without data rows passes with any header and yields no record.
C18_MissingColumnAlwaysFails == [][MissingColumnRefused]_vars

\* No element occurs twice in a list.
NoDuplicates(list) == \A i, j \in DOMAIN list : list[i] = list[j] => i = j

\* The product-update mutation of activate carries a tag list without
\* repetition whose elements are the product's tags and the offer's tags,
\* and the product holds exactly these afterwards.
MutationMergesTags ==
    \A p \in Procs :
        LET r == procs[p]
            sku == r.its[r.i].sku
            newTags == MergeTags(TagList(r.vtags), r.otags)
        IN (r.pc = "a_tags" /\ ATags(p))
            => /\ NoDuplicates(newTags)
               /\ Range(newTags) =
                      remote[sku].tags \cup Range(ParseTags(offers[r.oid].tags))
               /\ remote'[sku].tags = Range(newTags)

\* While activate runs on an offer without tags no step issues the
\* product-update mutation: none is pending and no product's tags change.
NoTagsNoMutation ==
    \A p \in Procs :
        (procs[p].op = "activate" /\ ParseTags(offers[1].tags) = <<>>)
            => /\ procs'[p].pc # "a_tags"
               /\ \A s \in Catalog : remote'[s].tags = remote[s].tags

\* C19: when activate processes a matched item of an offer with tags, the
\* product-update mutation it issues sets the product's tags to the union
\* of the product's existing tags and the offer's tags, without duplicates;
\* when the offer has no tags no product-update mutation is issued.
C19_TagsAreMerged == [][MutationMergesTags /\ NoTagsNoMutation]_vars

\* Activate has merged an offer's tags, one of them repeated and one the
\* product had already, into a product that had a tag of its own.
C19_Witness ==
    /\ procs["p1"].op = "activate" /\ procs["p1"].pc = "a_status"
    /\ procs["p1"].otags = <<"sale", "vip", "sale">>
    /\ procs["p1"].vtags = {"new", "sale"}
    /\ remote["A"].tags = {"new", "sale", "vip"}

\* An activate call is past its status check and has not returned.
InLoop(r) ==
    r.op = "activate" /\ r.pc \in {"a_query", "a_store", "a_price", "a_tags", "a_status"}

\* The status check of an activate call passes on a PENDING offer whatever
\* the other calls are doing, and writes nothing.
CheckPassesOnPending ==
    \A p \in Procs :
        (procs[p].pc = "a_find" /\ offers[procs[p].oid].status = "PENDING" /\ AFind(p))
            => /\ InLoop(procs'[p]) /\ procs'[p].seen = "PENDING"
               /\ offers' = offers

\* The item loop of an activate call does not write the offer's status:
\* the offer stays as it is until the write that follows the loop.
LoopKeepsStatus ==
    \A p \in Procs :
        (InLoop(procs[p]) /\ procs[p].pc # "a_status"
            /\ (AQuery(p) \/ AStore(p) \/ APrice(p) \/ ATags(p)))
            => offers' = offers

\* C20: two activate calls running concurrently on one PENDING offer can
\* both pass the status check before either writes the status, and then
\* both issue the price mutation of the same item.  Nothing excludes it:
\* the check passes on a PENDING offer while another call is in its loop,
\* and no call writes the status before its loop has ended.
C20_NoMutualExclusion == [][CheckPassesOnPending /\ LoopKeepsStatus]_vars

\* Two activate calls on the same offer, both having seen it PENDING, have
\* each issued the price mutation of the first item, and the offer is
\* still PENDING.
C20_Witness ==
    /\ InLoop(procs["p1"]) /\ InLoop(procs["p2"])
    /\ procs["p1"].oid = procs["p2"].oid
    /\ procs["p1"].seen = "PENDING" /\ procs["p2"].seen = "PENDING"
    /\ procs["p1"].its = procs["p2"].its
    /\ procs["p1"].i = 1 /\ procs["p1"].pc = "a_tags"
    /\ procs["p2"].i = 1 /\ procs["p2"].pc = "a_tags"
    /\ offers[procs["p1"].oid].status = "PENDING"

\* While a call is in its item loop, and after it stopped there, the offer
\* has the status the call found: the status write follows the loop.
StatusWrittenLast ==
    \A p \in Procs :
        /\ (procs[p].op = "activate"
                /\ procs[p].pc \in {"a_query", "a_store", "a_price", "a_tags", "a_status"})
              => offers[procs[p].oid].status = "PENDING"
        /\ (procs[p].op = "revert"
                /\ procs[p].pc \in {"r_query", "r_price", "r_tags", "r_status"})
              => offers[procs[p].oid].status = "ACTIVE"

StopKeepsStatus ==
    \A p \in Procs : (Busy(p) /\ procs'[p].pc = "idle") => offers' = offers

\* The price a run of activate leaves on a variant is the offerPrice of the
\* last item naming it, whatever the catalog held when the run began.
ActivateSetsOfferPrices ==
    \A p \in Procs :
        (procs[p].pc = "done" /\ procs[p].kind = "activate"
            /\ procs[p].seen = "PENDING" /\ ~procs[p].errs)
            => \A k \in DOMAIN items[procs[p].oid] :
                  LET its == items[procs[p].oid] IN
                  (Matched(its[k]) /\ \A j \in DOMAIN its : j > k => its[j].sku # its[k].sku)
                      => remote[its[k].sku].price = its[k].offerPrice

\* The price a run of revert leaves on a variant is the originalPrice of
\* the last item that names it and has one.
RevertSetsOriginalPrices ==
    \A p \in Procs :
        (procs[p].pc = "done" /\ procs[p].kind = "revert"
            /\ procs[p].seen = "ACTIVE" /\ ~procs[p].errs)
            => \A k \in DOMAIN items[procs[p].oid] :
                  LET its == items[procs[p].oid] IN
                  (/\ Matched(its[k]) /\ its[k].originalPrice # NULL
                   /\ \A j \in DOMAIN its :
                         j > k => (its[j].sku # its[k].sku \/ its[j].originalPrice = NULL))
                      => remote[its[k].sku].price = its[k].originalPrice

\* C21: the status write is the last step of activate and of revert: a run
\* that stops in its item loop leaves the offer PENDING (ACTIVE), and the
\* same operation run again to completion goes through all the items and
\* leaves on every matched variant the price a single uninterrupted run
\* leaves (stated for the runs none of whose price mutations returned user
\* errors).
C21_RerunSetsSamePrices ==
    /\ [](StatusWrittenLast /\ ActivateSetsOfferPrices /\ RevertSetsOriginalPrices)
    /\ [][StopKeepsStatus]_vars

\* An activate call has completed on an offer whose variant already had
\* the offer price when the call began: an earlier activate of this offer,
\* the only one there is, had set it and stopped before the status write.
C21_Witness ==
    /\ procs["p1"].pc = "done" /\ procs["p1"].kind = "activate"
    /\ procs["p1"].seen = "PENDING" /\ ~procs["p1"].errs
    /\ procs["p1"].pre["A"] = 2
    /\ offers[1].status = "ACTIVE" /\ remote["A"].price = 2
    /\ \E k \in DOMAIN items[1] : items[1][k].sku = "A"

NoOriginals(its) == \A k \in DOMAIN its : its[k].originalPrice = NULL

\* C22 (as stated): in every reachable state an item with an originalPrice
\* belongs to an offer whose status is ACTIVE or COMPLETED; every item of a
\* PENDING offer has originalPrice null.
C22_OriginalOnlyWhenActive ==
    \A o \in OfferIds :
        ~NoOriginals(items[o]) => offers[o].status \in {"ACTIVE", "COMPLETED"}

\* An offer no activate call has written to holds no originalPrice.
UntouchedHasNoOriginals ==
    \A o \in OfferIds : ~hist[o].mutated => NoOriginals(items[o])

\* The items of an offer change either by one step of an activate call
\* that found the offer PENDING, which sets the originalPrice of the item it
\* is at, or by a create, an upload or a delete, which leave no
\* originalPrice.
OriginalsSetByActivate ==
    \A o \in OfferIds :
        items'[o] # items[o]
            => \/ NoOriginals(items'[o])
               \/ \E p \in Procs :
                     /\ procs[p].pc = "a_store" /\ procs[p].oid = o
                     /\ procs[p].op = "activate" /\ procs[p].seen = "PENDING"
                     /\ Len(items'[o]) = Len(items[o])
                     /\ \A k \in DOMAIN items[o] :
                           IF k = procs[p].i
                           THEN items'[o][k] =
                                  [items[o][k] EXCEPT !.originalPrice = items'[o][k].originalPrice]
                           ELSE items'[o][k] = items[o][k]

\* C22 (amended): an item has an originalPrice only if an activate call
\* that found the offer PENDING has written it: the items of a created
\* offer and the items of an upload have none, and the loop of activate
\* sets them one by one while the offer is still PENDING.
C22_OriginalOnlyAfterActivateBegan ==
    []UntouchedHasNoOriginals /\ [][OriginalsSetByActivate]_vars

\* An activate call has recorded an item's originalPrice and the offer is
\* still PENDING.
C22_Witness ==
    /\ offers[1].status = "PENDING"
    /\ hist[1].mutated
    /\ ~NoOriginals(items[1])

\* When activate issues the price mutation of an item, the item's row
\* already holds an originalPrice.
StoredBeforePriced ==
    \A p \in Procs :
        (procs[p].pc = "a_price" /\ APrice(p))
            => /\ procs[p].i \in DOMAIN items[procs[p].oid]
               /\ items[procs[p].oid][procs[p].i].sku = procs[p].its[procs[p].i].sku
               /\ items[procs[p].oid][procs[p].i].originalPrice # NULL

\* A call that stops takes nothing back: the rows and the catalog stay as
\* they are.
StopKeepsWrites ==
    \A p \in Procs :
        (Busy(p) /\ procs'[p].pc = "idle") => (items' = items /\ remote' = remote)

\* While activate is in its loop every matched item it has passed, and the
\* item whose price mutation is next or just issued, has an originalPrice.
PassedItemsRecorded ==
    \A p \in Procs :
        (procs[p].op = "activate"
            /\ procs[p].pc \in {"a_query", "a_store", "a_price", "a_tags", "a_status"})
            => \A k \in DOMAIN procs[p].its :
                  (Matched(procs[p].its[k])
                      /\ (k < procs[p].i \/ (k = procs[p].i /\ procs[p].pc \in {"a_price", "a_tags"})))
                      => /\ k \in DOMAIN items[procs[p].oid]
                         /\ items[procs[p].oid][k].originalPrice # NULL

\* C23: within activate an item's originalPrice is written to the store
\* before the price mutation of that item is issued, and a call that stops
\* takes nothing back: in every state, one left by a stop at any point of
\* the loop included, every item whose variant price the call has set has
\* an originalPrice.
C23_OriginalStoredBeforePriceSet ==
    []PassedItemsRecorded /\ [][StoredBeforePriced /\ StopKeepsWrites]_vars

\* An activate call stopped right after an item's price mutation: the
\* variant has the offer price, the item its originalPrice, and the offer
\* is PENDING with no call in flight.
C23_Witness ==
    /\ AllIdle /\ offers[1].status = "PENDING"
    /\ remote["A"].price = 2
    /\ Len(items[1]) = 1 /\ items[1][1].sku = "A" /\ items[1][1].originalPrice = 1

\* No two items of the list name the same SKU.
DistinctSkus(its) == \A j, k \in DOMAIN its : its[j].sku = its[k].sku => j = k

\* C24: when an activate of an OFFER offer stopped part-way and activate
\* is run again to completion, every matched item's originalPrice is the
\* price its variant had before the first attempt.  With one offer and no
\* other writer that price is the catalog's initial price; stated for item
\* lists without a repeated SKU.
C24_RerunKeepsFirstOriginal ==
    \A p \in Procs :
        (Activated(p, "OFFER") /\ DistinctSkus(items[procs[p].oid]))
            => \A k \in DOMAIN items[procs[p].oid] :
                  Matched(items[procs[p].oid][k])
                      => items[procs[p].oid][k].originalPrice = 1

\* C25: when two activate calls on the same PENDING OFFER offer interleave
\* and both finish, every matched item's originalPrice is the price its
\* variant had before either call started: stated for two calls that both
\* found the same catalog prices at their status check and for item lists
\* without a repeated SKU.
C25_ConcurrentActivateKeepsOriginal ==
    \A p, q \in Procs :
        (/\ p # q /\ Activated(p, "OFFER") /\ Activated(q, "OFFER")
         /\ procs[p].oid = procs[q].oid /\ procs[p].pre = procs[q].pre
         /\ DistinctSkus(items[procs[p].oid]))
            => \A k \in DOMAIN items[procs[p].oid] :
                  Matched(items[procs[p].oid][k])
                      => items[procs[p].oid][k].originalPrice
                             = procs[p].pre[items[procs[p].oid][k].sku]

\* C26: when two OFFER offers name the same SKU and are active together,
\* then after both have been activated and reverted, in any order and with
\* no other writer, the variant has the price it had before either was
\* activated (the catalog's initial price).  Hence, once one of the two is
\* COMPLETED and the variant is back at that price, the price mutation of
\* the other's revert leaves it there.
C26_OverlappingOffersRestorePrice ==
    [][\A p \in Procs, o \in OfferIds :
          LET r == procs[p]
              sku == r.its[r.i].sku
          IN (/\ r.op = "revert" /\ r.pc = "r_price" /\ r.ptype = "OFFER"
              /\ o # r.oid
              /\ offers[o].status = "COMPLETED" /\ offers[o].priceType = "OFFER"
              /\ sku \in ItemSkus(items[o])
              /\ remote[sku].price = 1
              /\ RPrice(p))
                 => remote'[sku].price = 1]_vars

\* C27: for an offer with tags, activate followed by revert, each run to
\* completion with no other writer, leaves every matched product's tag set
\* equal to the one it had before activate, also when the product carried
\* one of the offer's tags already: here every product starts with the
\* shop's tags and the one offer is the only writer.
C27_RoundTripRestoresTags ==
    \A p \in Procs :
        Reverted(p, "OFFER") => \A s \in Catalog : remote[s].tags = ShopTags

\* C28: in every reachable state each item of an offer with pricingFormat
\* BASE has offerPrice = basePrice * markup * (1 - discount/100) for the
\* markup and discount the offer stores now, the base price being one of
\* the prices an upload can carry; also after an edit that changes markup,
\* discount or pricingFormat without a new CSV.
C28_ItemsFollowStoredPricing ==
    \A o \in OfferIds :
        (Exists(o) /\ offers[o].pricingFormat = "BASE")
            => \A k \in DOMAIN items[o] :
                  \E c \in CalcPrices :
                      items[o][k].offerPrice * 100
                          = ParseFloat(c) * offers[o].markup * (100 - offers[o].discount)

\* The offers a sweep must leave alone: PENDING without startDate, ACTIVE
\* without endDate.
Undated(o) ==
    \/ offers[o].status = "PENDING" /\ offers[o].startDate = NULL
    \/ offers[o].status = "ACTIVE" /\ offers[o].endDate = NULL

\* No step of a sweep selects an undated offer, calls activate or revert on
\* it, or changes its row or its items.
SweepSkipsUndated ==
    \A p \in Procs, o \in OfferIds :
        (procs[p].kind = "sweep" /\ procs'[p].kind = "sweep" /\ Undated(o))
            => /\ offers'[o] = offers[o] /\ items'[o] = items[o]
               /\ o \notin Range(procs'[p].queue)
               /\ procs[p].pc \in {"s_pending", "s_active"}
                     => o \notin procs'[p].due.act \cup procs'[p].due.rev

\* C29: the sweep never changes an offer whose relevant date is null: a
\* PENDING offer without startDate (every REGULAR offer after an edit) is
\* never activated by a sweep and an ACTIVE offer without endDate is never
\* reverted by one; only the explicit activate and revert move them.
C29_SweepLeavesUndatedOffers == [][SweepSkipsUndated]_vars

\* A sweep has returned, having activated a due offer, while the other
\* offer, REGULAR and without dates, is still PENDING.
C29_Witness ==
    \E p \in Procs, o \in OfferIds :
        /\ procs[p].pc = "done" /\ procs[p].kind = "sweep"
        /\ procs[p].acts # {} /\ o \notin procs[p].acts
        /\ offers[o].status = "PENDING" /\ offers[o].priceType = "REGULAR"
        /\ offers[o].startDate = NULL

\* The query for ACTIVE offers runs when activate has been called on every
\* offer of the first query and none of them is PENDING any more, and it
\* answers those of them whose endDate has passed.
ActivationPassFirst ==
    \A p \in Procs :
        (procs[p].kind = "sweep" /\ procs[p].pc = "s_active" /\ SActive(p))
            => /\ procs[p].acts = procs[p].due.act
               /\ \A o \in procs[p].due.act :
                     /\ offers[o].status = "ACTIVE"
                     /\ (offers[o].endDate # NULL /\ offers[o].endDate < procs[p].now)
                           => o \in procs'[p].due.rev

\* When a sweep returns, every offer it found PENDING with startDate and
\* endDate both passed has been activated and reverted by it and is
\* COMPLETED.
PastOffersCompleted ==
    \A p \in Procs :
        (procs[p].pc = "done" /\ procs[p].kind = "sweep")
            => \A o \in procs[p].due.act :
                  (offers[o].endDate # NULL /\ offers[o].endDate < procs[p].now)
                      => /\ o \in procs[p].acts /\ o \in procs[p].revs
                         /\ offers[o].status = "COMPLETED"

\* C30: within one sweep the activation pass finishes before the query
\* for ACTIVE offers runs, so a PENDING offer whose startDate and endDate
\* have both passed when the sweep runs is activated and then reverted by
\* that sweep and ends COMPLETED; no sweep leaves such an offer ACTIVE.
C30_PastOfferCompletedInOneSweep ==
    []PastOffersCompleted /\ [][ActivationPassFirst]_vars

\* A sweep has returned after activating and reverting the same offer.
C30_Witness ==
    \E p \in Procs, o \in OfferIds :
        /\ procs[p].pc = "done" /\ procs[p].kind = "sweep"
        /\ o \in procs[p].due.act /\ o \in procs[p].acts /\ o \in procs[p].revs
        /\ offers[o].endDate # NULL /\ offers[o].endDate < procs[p].now
        /\ offers[o].status = "COMPLETED"

====
